---- MODULE Spec2Model ----
\* Model of model_organizer.py: a script that catalogs model files in a SQLite
\* database (Classifier pass) and moves new files from the staging root into
\* models/<type dir>/<base model>/<creator>/ (Relocator pass).
EXTENDS Integers, Sequences, FiniteSets, TLC

VARIABLES
    fs,              \* the files on disk: path |-> content hash
    durable,         \* the committed contents of database.db
    db,              \* the contents the open connection sees (durable + staged writes)
    pc,              \* where the script is
    runs,            \* how many runs were started
    todo,            \* the paths of the current loop still to be visited (os.walk
                     \* lists them in no order the script fixes)
    model_path,      \* loop variable of both passes
    model_hash,      \* calculate_hash(model_path)
    model_version,   \* the Relocator's by-hash record
    new_model_path,  \* the Relocator's target path
    response,        \* the last response requests.get returned
    retries,         \* how often the request in flight was repeated
    registry,        \* the registry's answers so far, per URL
    begin,           \* the durable catalog when the current file's processing began
    outcome,         \* how the processing of the last file ended
    prev,            \* the durable catalog at the end of the previous run, if it completed
    moves,           \* the number of files moved in the current run
    lost             \* what killed runs had staged for files they had moved already

vars == <<fs, durable, db, pc, runs, todo, model_path, model_hash, model_version,
          new_model_path, response, retries, registry, begin, outcome, prev, moves,
          lost>>

-----------------------------------------------------------------------------
\* Bounds of the model.

MaxFiles == 3      \* files on disk initially
MaxRuns == 2       \* runs of the script
MaxRetries == 1    \* repetitions of one request answered 500

-----------------------------------------------------------------------------
\* Module-level constants of the script.

MODEL_PATH == <<"models">>

MODEL_EXTENSIONS == {".safetensors"}

MODEL_TYPE_PATHS ==
    {MODEL_PATH \o <<"checkpoints">>, MODEL_PATH \o <<"embeddings">>,
     MODEL_PATH \o <<"loras">>, MODEL_PATH \o <<"vae">>}

\* The uncertain bucket as it would be were it another directory.
MODEL_NOT_FOUND_PATH_Other == MODEL_PATH \o <<"loras", "unknown">>

MODEL_NOT_FOUND_PATH == MODEL_PATH \o <<"loras", "null">>

\* Python's None, as a directory name or a column value.
None == "None"

MODEL_TYPE_TO_DIRECTORY_MAP ==
    [t \in {"Checkpoint", "TextualInversion", "LORA", "LoCon", "DoRA", "VAE"} |->
        CASE t = "Checkpoint" -> "checkpoints"
          [] t = "TextualInversion" -> "embeddings"
          [] t \in {"LORA", "LoCon", "DoRA"} -> "loras"
          [] t = "VAE" -> "vae"]

\* dict.get(key): None when the key is absent.
DictGet(d, key) == IF key \in DOMAIN d THEN d[key] ELSE None

\* {value: key for key, value in MAP.items() if key not in ['LoCon', 'DoRA']}
ReverseTypeMap ==
    LET keys == DOMAIN MODEL_TYPE_TO_DIRECTORY_MAP \ {"LoCon", "DoRA"}
        dirs == {MODEL_TYPE_TO_DIRECTORY_MAP[k] : k \in keys}
    IN  [d \in dirs |-> CHOOSE k \in keys : MODEL_TYPE_TO_DIRECTORY_MAP[k] = d]

-----------------------------------------------------------------------------
\* Paths (pathlib.Path as the sequence of its parts).

FileNames == {"a.safetensors", "b.safetensors", "c.txt"}

\* Path.suffix of a file name.
Suffix(name) == IF name \in {"a.safetensors", "b.safetensors"} THEN ".safetensors" ELSE ".txt"

Name(p) == p[Len(p)]

Parent(p) == SubSeq(p, 1, Len(p) - 1)

\* parts[:n]
Parts(p, n) == SubSeq(p, 1, IF n < Len(p) THEN n ELSE Len(p))

Hashes == {"h1", "h2"}

\* The places where a file may lie before the first run.
InitPaths ==
    {<<"models", "a.safetensors">>,
     <<"models", "b.safetensors">>,
     <<"models", "c.txt">>,
     <<"models", "checkpoints", "SDXL", "alice", "a.safetensors">>,
     <<"models", "loras", "SDXL", "alice", "a.safetensors">>,
     <<"models", "loras", "null", "a.safetensors">>}

\* get_all_models_path(): every file under models/.
get_all_models_path == DOMAIN fs

\* calculate_hash(filepath)
calculate_hash(filepath) == fs[filepath]

\* The files the Classifier loop does not skip at its head.
ClassifierFiles ==
    {p \in get_all_models_path :
        /\ Suffix(Name(p)) \in MODEL_EXTENSIONS
        /\ Parts(p, 2) \in MODEL_TYPE_PATHS}

\* The files the Relocator loop does not skip at its head.
RelocatorFiles ==
    {p \in get_all_models_path :
        /\ Suffix(Name(p)) \in MODEL_EXTENSIONS
        /\ Parent(p) = MODEL_PATH}

\* model_path.rename(new_model_path)
Rename(files, src, dst) ==
    [p \in (DOMAIN files \ {src}) \cup {dst} |-> IF p = dst THEN files[src] ELSE files[p]]

-----------------------------------------------------------------------------
\* The database. NULL is 0 in an id column (ids start at 1) and None in a name.

NULL == 0

Tables == {"models", "civitai_models", "types", "base_models", "creators"}

\* The database after SQL_CREATE_TABLES on a new file.
EmptyDb == [t \in Tables |-> {}]

\* AUTOINCREMENT: no row is ever deleted, so the next id is the row count + 1.
NextId(rows) == Cardinality(rows) + 1

\* The row an INSERT of `columns` adds to `table` (DEFAULT NULL for a missing link).
NewRow(d, table, columns) ==
    IF table = "models"
    THEN [id |-> NextId(d[table]), path |-> columns.path, hash |-> columns.hash,
          civitai_model_id |-> IF "civitai_model_id" \in DOMAIN columns
                               THEN columns.civitai_model_id ELSE NULL]
    ELSE [id |-> NextId(d[table])] @@ columns

\* IntegrityError as it would be were the reference names not declared UNIQUE.
IntegrityError_NameNotUnique(d, table, columns) ==
    CASE table = "models" ->
            LET r == NewRow(d, table, columns)
            IN  \E m \in d.models :
                    \/ m.path = r.path
                    \/ m.hash = r.hash
                    \/ (r.civitai_model_id # NULL /\ m.civitai_model_id = r.civitai_model_id)
      [] table = "civitai_models" ->
            columns.type_id = NULL \/ columns.base_model_id = NULL
      [] OTHER ->
            columns.name = None

\* IntegrityError as it would be were models.path not declared UNIQUE.
IntegrityError_PathNotUnique(d, table, columns) ==
    CASE table = "models" ->
            \E m \in d.models :
                \/ m.hash = columns.hash
                \/ /\ "civitai_model_id" \in DOMAIN columns
                   /\ columns.civitai_model_id # NULL
                   /\ m.civitai_model_id = columns.civitai_model_id
      [] table = "civitai_models" ->
            columns.type_id = NULL \/ columns.base_model_id = NULL
      [] OTHER ->
            columns.name = None \/ \E r \in d[table] : r.name = columns.name

\* Whether an INSERT of `columns` into `table` raises sqlite3.IntegrityError
\* (UNIQUE and NOT NULL constraints of SQL_CREATE_TABLES; foreign keys are not enforced).
IntegrityError(d, table, columns) ==
    CASE table = "models" ->
            LET r == NewRow(d, table, columns)
            IN  \E m \in d.models :
                    \/ m.path = r.path
                    \/ m.hash = r.hash
                    \/ (r.civitai_model_id # NULL /\ m.civitai_model_id = r.civitai_model_id)
      [] table = "civitai_models" ->
            columns.type_id = NULL \/ columns.base_model_id = NULL
      [] OTHER ->
            columns.name = None \/ \E r \in d[table] : r.name = columns.name

\* cursor.execute('INSERT ...') when it does not raise.
Insert(d, table, columns) == [d EXCEPT ![table] = @ \cup {NewRow(d, table, columns)}]

\* SELECT 1 FROM models WHERE path = ?
ExistsByPath(d, path) == \E m \in d.models : m.path = path

\* The hash check as it would be were it never to find a row.
ExistsByHash_Never(d, hash) == FALSE

\* SELECT 1 FROM models WHERE hash = ?
ExistsByHash(d, hash) == \E m \in d.models : m.hash = hash

\* SELECT id FROM <table> WHERE name = ?, fetchone(): NULL when there is no row
\* (name = NULL matches no row).
SelectId(d, table, name) ==
    IF name # None /\ \E r \in d[table] : r.name = name
    THEN (CHOOSE r \in d[table] : r.name = name).id
    ELSE NULL

\* The state a chain of database calls threads through: the connection's view, the
\* committed contents, cursor.lastrowid, and whether the script has stopped
\* ("no", "exit" after exit(), "crash" after an uncaught exception).
\* `fetched` is the id the last SELECT id ... fetchone() gave.
Ctx(d, dur) == [db |-> d, durable |-> dur, lastrowid |-> NULL, fetched |-> NULL, halt |-> "no"]

\* insert_into_database as it would be were every call to commit.
insert_into_database_Commits(c, table, columns, enable_exception, commit) ==
    IF c.halt # "no" THEN c
    ELSE IF IntegrityError(c.db, table, columns)
         THEN IF enable_exception
              THEN [c EXCEPT !.halt = "exit"]
              ELSE [c EXCEPT !.durable = c.db]
         ELSE LET d == Insert(c.db, table, columns)
              IN  [c EXCEPT !.db = d,
                            !.lastrowid = NextId(c.db[table]),
                            !.durable = d]

\* insert_into_database(cursor, connection, table, columns, enable_exception, commit)
insert_into_database(c, table, columns, enable_exception, commit) ==
    IF c.halt # "no" THEN c
    ELSE IF IntegrityError(c.db, table, columns)
         THEN IF enable_exception
              THEN [c EXCEPT !.halt = "exit"]
              ELSE [c EXCEPT !.durable = IF commit THEN c.db ELSE @]
         ELSE LET d == Insert(c.db, table, columns)
              IN  [c EXCEPT !.db = d,
                            !.lastrowid = NextId(c.db[table]),
                            !.durable = IF commit THEN d ELSE @]

\* connect_to_database(), executescript(SQL_CREATE_TABLES) and the sentinel creator.
Startup(dur) ==
    insert_into_database(Ctx(dur, dur), "creators", [name |-> "null"], FALSE, TRUE)

\* connection.commit()
Commit(c) == IF c.halt # "no" THEN c ELSE [c EXCEPT !.durable = c.db]

\* connection.rollback()
Rollback(c) == IF c.halt # "no" THEN c ELSE [c EXCEPT !.db = c.durable]

\* insert_into_database(cursor, connection, table, {'name': name}), then
\* SELECT id FROM table WHERE name = ? and dict(cursor.fetchone())['id']:
\* dict(None) raises TypeError when the SELECT finds no row.
GetOrCreateRef(c, table, name) ==
    LET c1 == insert_into_database(c, table, [name |-> name], FALSE, FALSE)
        id == SelectId(c1.db, table, name)
    IN  IF c1.halt # "no" THEN c1
        ELSE IF id = NULL THEN [c1 EXCEPT !.halt = "crash"]
        ELSE [c1 EXCEPT !.fetched = id]

\* The ModelFile insert as it would be were the link to the CatalogEntry left out.
ExecuteInsertModel_Unlinked(c, columns) ==
    IF c.halt # "no" THEN c
    ELSE IF IntegrityError(c.db, "models", [path |-> columns.path, hash |-> columns.hash])
         THEN [c EXCEPT !.halt = "crash"]
    ELSE [c EXCEPT !.db = Insert(c.db, "models",
                                 [path |-> columns.path, hash |-> columns.hash]),
                   !.lastrowid = NextId(c.db.models)]

\* cursor.execute('INSERT INTO models (path, hash, civitai_model_id) VALUES (?, ?, ?)'):
\* an IntegrityError is not caught here.
ExecuteInsertModel(c, columns) ==
    IF c.halt # "no" THEN c
    ELSE IF IntegrityError(c.db, "models", columns) THEN [c EXCEPT !.halt = "crash"]
    ELSE [c EXCEPT !.db = Insert(c.db, "models", columns),
                   !.lastrowid = NextId(c.db.models)]

\* The Classifier's writes for one file, from the three references to the commit.
ClassifierStage(c, path, hash, model_type, model_base_model, model_creator) ==
    LET c1 == GetOrCreateRef(c, "types", model_type)
        c2 == GetOrCreateRef(c1, "base_models", model_base_model)
        c3 == GetOrCreateRef(c2, "creators", model_creator)
        c4 == insert_into_database(c3, "civitai_models",
                  [type_id |-> c1.fetched, base_model_id |-> c2.fetched,
                   creator_id |-> c3.fetched], FALSE, FALSE)
        c5 == ExecuteInsertModel(c4,
                  [path |-> path, hash |-> hash, civitai_model_id |-> c4.lastrowid])
    IN  Commit(c5)

\* The Relocator's writes as they would be were the ModelFile insert to commit.
RelocatorStage_Commits(c, path, hash, model_type, model_base_model, model_creator) ==
    LET c1 == GetOrCreateRef(c, "types", model_type)
        c2 == GetOrCreateRef(c1, "base_models", model_base_model)
        c3 == GetOrCreateRef(c2, "creators", model_creator)
        c4 == insert_into_database(c3, "civitai_models",
                  [type_id |-> c1.fetched, base_model_id |-> c2.fetched,
                   creator_id |-> c3.fetched], TRUE, FALSE)
    IN  insert_into_database(c4, "models",
            [path |-> path, hash |-> hash, civitai_model_id |-> c4.lastrowid], TRUE, TRUE)

\* The Relocator's staged writes for one file found by the registry (not committed).
RelocatorStage(c, path, hash, model_type, model_base_model, model_creator) ==
    LET c1 == GetOrCreateRef(c, "types", model_type)
        c2 == GetOrCreateRef(c1, "base_models", model_base_model)
        c3 == GetOrCreateRef(c2, "creators", model_creator)
        c4 == insert_into_database(c3, "civitai_models",
                  [type_id |-> c1.fetched, base_model_id |-> c2.fetched,
                   creator_id |-> c3.fetched], TRUE, FALSE)
    IN  insert_into_database(c4, "models",
            [path |-> path, hash |-> hash, civitai_model_id |-> c4.lastrowid], TRUE, FALSE)

-----------------------------------------------------------------------------
\* The registry (civitai.com) and its responses.

ModelIds == {101}

RegistryTypes == {"Checkpoint", "LoCon", "Controlnet"}

BaseModels == {"SDXL"}

Usernames == {"alice"}

\* A response body: a model-version record, a model record (creator = None when the
\* record has no 'creator' key), or a JSON object that is neither ("error").
Json(kind, type, baseModel, modelId, creator) ==
    [kind |-> kind, type |-> type, baseModel |-> baseModel, modelId |-> modelId,
     creator |-> creator]

ErrorJson == Json("error", None, None, NULL, None)

NoResponse == [status |-> 0, json |-> ErrorJson]

\* What /model-versions/by-hash/<hash> may answer, once it no longer answers 500.
HashAnswers ==
    {[status |-> 200, json |-> Json("version", t, b, m, None)] :
        t \in RegistryTypes, b \in BaseModels, m \in ModelIds}
    \cup {[status |-> 404, json |-> ErrorJson], [status |-> 429, json |-> ErrorJson]}

\* What /models/<modelId> may answer, once it no longer answers 500.
IdAnswers ==
    {[status |-> 200, json |-> Json("model", None, None, NULL, u)] :
        u \in Usernames \cup {None}}
    \cup {[status |-> 404, json |-> ErrorJson]}

TransientError == [status |-> 500, json |-> ErrorJson]

\* The registry gives the same final answer to the same request every time;
\* a transient error is no final answer.
SameAnswer(known, a) == a = TransientError \/ known = NoResponse \/ known = a

\* The registry's memory of its final answers.
Remember(known, a) == IF a = TransientError THEN known ELSE a

-----------------------------------------------------------------------------
\* The script.

Init ==
    /\ \E S \in SUBSET InitPaths :
            /\ Cardinality(S) <= MaxFiles
            /\ fs \in [S -> Hashes]
    /\ durable = EmptyDb
    /\ db = EmptyDb
    /\ pc = "idle"
    /\ runs = 0
    /\ todo = {}
    /\ model_path = <<>>
    /\ model_hash = ""
    /\ model_version = ErrorJson
    /\ new_model_path = <<>>
    /\ response = NoResponse
    /\ retries = 0
    /\ registry = [byHash |-> [h \in Hashes |-> NoResponse],
                   byId |-> [m \in ModelIds |-> NoResponse]]
    /\ begin = EmptyDb
    /\ outcome = "none"
    /\ prev = [completed |-> FALSE, catalog |-> EmptyDb]
    /\ moves = 0
    /\ lost = {}

Stopped == pc \in {"idle", "done", "exited", "crashed", "killed"}

\* The script starts: connection, tables, the sentinel creator, the first walk.
StartRun ==
    /\ Stopped
    /\ runs < MaxRuns
    /\ runs' = runs + 1
    /\ LET c == Startup(durable)
       IN  db' = c.db /\ durable' = c.durable
    /\ todo' = ClassifierFiles
    /\ pc' = "classifier"
    /\ prev' = [completed |-> (pc = "done"), catalog |-> durable]
    /\ moves' = 0
    /\ outcome' = "none"
    /\ model_path' = <<>>
    /\ model_hash' = ""
    /\ model_version' = ErrorJson
    /\ new_model_path' = <<>>
    /\ response' = NoResponse
    /\ retries' = 0
    /\ begin' = durable
    /\ UNCHANGED <<lost, fs, registry>>

\* The script's state after a chain of database calls: at `next` when nothing
\* stopped it; else stopped, with the connection closed and its staged writes lost.
Land(c, next, how) ==
    /\ durable' = c.durable
    /\ IF c.halt # "no"
       THEN /\ pc' = (IF c.halt = "exit" THEN "exited" ELSE "crashed")
            /\ db' = c.durable
            /\ outcome' = pc'
       ELSE /\ pc' = next
            /\ db' = c.db
            /\ outcome' = how

\* An uncaught exception outside the database calls.
Raise(c) == [c EXCEPT !.halt = "crash"]

\* What every loop iteration sets when it takes the next path.
Take(p) ==
    /\ p \in todo
    /\ todo' = todo \ {p}
    /\ model_path' = p
    /\ begin' = durable
    /\ model_version' = ErrorJson
    /\ new_model_path' = <<>>
    /\ response' = NoResponse

\* Classifier: the path or the hash is in the catalog already.
ClassifierSkip(p) ==
    /\ pc = "classifier"
    /\ Take(p)
    /\ ExistsByPath(db, p) \/ ExistsByHash(db, calculate_hash(p))
    /\ model_hash' = (IF ExistsByPath(db, p) THEN model_hash ELSE calculate_hash(p))
    /\ outcome' = "skipped"
    /\ UNCHANGED <<lost, fs, durable, db, pc, runs, retries, registry, prev, moves>>

\* Classifier: a new file of the uncertain bucket is recorded with path and hash.
ClassifierUncertain(p) ==
    /\ pc = "classifier"
    /\ Take(p)
    /\ ~ExistsByPath(db, p)
    /\ ~ExistsByHash(db, calculate_hash(p))
    /\ Parent(p) = MODEL_NOT_FOUND_PATH
    /\ model_hash' = calculate_hash(p)
    /\ Land(Commit(insert_into_database(Ctx(db, durable), "models",
                        [path |-> p, hash |-> calculate_hash(p)], FALSE, FALSE)),
            "classifier", "recorded")
    /\ UNCHANGED <<lost, fs, runs, retries, registry, prev, moves>>

\* Classifier: a new file elsewhere is looked up in the registry by its hash.
ClassifierRequest(p) ==
    /\ pc = "classifier"
    /\ Take(p)
    /\ ~ExistsByPath(db, p)
    /\ ~ExistsByHash(db, calculate_hash(p))
    /\ Parent(p) # MODEL_NOT_FOUND_PATH
    /\ model_hash' = calculate_hash(p)
    /\ pc' = "classifier_request"
    /\ outcome' = "none"
    /\ UNCHANGED <<lost, fs, durable, db, runs, retries, registry, prev, moves>>

RequestPcs == {"classifier_request", "relocator_request_hash", "relocator_request_id"}

\* The retry condition as it would be without the retry loop.
ShouldRetry_Never(status) == FALSE

\* while response.status_code == 500
ShouldRetry(status) == status = 500

\* send_get_request: the registry answers 500, the client sleeps and asks again.
Retry ==
    /\ pc \in RequestPcs
    /\ retries < MaxRetries
    /\ ShouldRetry(TransientError.status)
    /\ retries' = retries + 1
    /\ response' = TransientError
    /\ UNCHANGED <<lost, fs, durable, db, pc, runs, todo, model_path, model_hash, model_version,
                   new_model_path, registry, begin, outcome, prev, moves>>

\* model_type, model_base_model, model_creator = model_path.parts[:3]
DirectoryTriple(p) == Parts(p, 3)

\* The type the Classifier records: the reverse-mapped directory on 404, else
\* response.json()['model']['type'] (None stands for the KeyError of another body).
ClassifierType(p, a) ==
    IF a.status = 404 THEN DictGet(ReverseTypeMap, DirectoryTriple(p)[1])
    ELSE IF a.json.kind = "version" THEN a.json.type
    ELSE None

\* Classifier: the registry's answer, the references, the entry, the link, the commit.
ClassifierResponse(a) ==
    /\ pc = "classifier_request"
    /\ a \in HashAnswers \cup {TransientError}
    /\ ~ShouldRetry(a.status)
    /\ SameAnswer(registry.byHash[model_hash], a)
    /\ registry' = [registry EXCEPT !.byHash[model_hash] = Remember(@, a)]
    /\ response' = a
    /\ retries' = 0
    /\ IF a.status # 404 /\ a.json.kind # "version"
       THEN Land(Raise(Ctx(db, durable)), "classifier", "classified")
       ELSE LET t == DirectoryTriple(model_path)
            IN  Land(ClassifierStage(Ctx(db, durable), model_path, model_hash,
                                     ClassifierType(model_path, a), t[2], t[3]),
                     "classifier", "classified")
    /\ UNCHANGED <<lost, fs, runs, todo, model_path, model_hash, model_version, new_model_path,
                   begin, prev, moves>>

\* The Classifier loop ends; the Relocator walks the tree again.
ClassifierDone ==
    /\ pc = "classifier"
    /\ todo = {}
    /\ todo' = RelocatorFiles
    /\ pc' = "relocator"
    /\ UNCHANGED <<lost, fs, durable, db, runs, model_path, model_hash, model_version,
                   new_model_path, response, retries, registry, begin, outcome, prev, moves>>

\* Relocator: the hash is in the catalog already.
RelocatorSkip(p) ==
    /\ pc = "relocator"
    /\ Take(p)
    /\ ExistsByHash(db, calculate_hash(p))
    /\ model_hash' = calculate_hash(p)
    /\ outcome' = "skipped"
    /\ UNCHANGED <<lost, fs, durable, db, pc, runs, retries, registry, prev, moves>>

\* Relocator: a staging file with a new hash is looked up in the registry.
RelocatorRequest(p) ==
    /\ pc = "relocator"
    /\ Take(p)
    /\ ~ExistsByHash(db, calculate_hash(p))
    /\ model_hash' = calculate_hash(p)
    /\ pc' = "relocator_request_hash"
    /\ outcome' = "none"
    /\ UNCHANGED <<lost, fs, durable, db, runs, retries, registry, prev, moves>>

\* Relocator: the by-hash answer. 404 sends the file to the uncertain bucket;
\* any other body is read as a version record, whose model is asked for next.
RelocatorHashResponse(a) ==
    /\ pc = "relocator_request_hash"
    /\ a \in HashAnswers \cup {TransientError}
    /\ ~ShouldRetry(a.status)
    /\ SameAnswer(registry.byHash[model_hash], a)
    /\ registry' = [registry EXCEPT !.byHash[model_hash] = Remember(@, a)]
    /\ response' = a
    /\ retries' = 0
    /\ IF a.status = 404
       THEN /\ new_model_path' = MODEL_NOT_FOUND_PATH \o <<Name(model_path)>>
            /\ pc' = "relocator_check"
            /\ UNCHANGED <<durable, db, model_version, outcome>>
       ELSE IF a.json.kind = "version"
       THEN /\ model_version' = a.json
            /\ pc' = "relocator_request_id"
            /\ UNCHANGED <<durable, db, new_model_path, outcome>>
       ELSE /\ Land(Raise(Ctx(db, durable)), "relocator_request_id", outcome)
            /\ UNCHANGED <<model_version, new_model_path>>
    /\ UNCHANGED <<lost, fs, runs, todo, model_path, model_hash, begin, prev, moves>>

\* model_creator: the model record's creator.username, 'null' without a creator.
CreatorOf(model) == IF model.creator # None THEN model.creator ELSE "null"

\* The target path as it would be with creator and base model in each other's place.
TargetPath_Swapped(model_type, model_base_model, model_creator, name) ==
    MODEL_PATH \o <<DictGet(MODEL_TYPE_TO_DIRECTORY_MAP, model_type),
                    model_creator, model_base_model, name>>

\* Path(MODEL_PATH, MODEL_TYPE_TO_DIRECTORY_MAP.get(model_type), model_base_model,
\*      model_creator, model_path.name)
TargetPath(model_type, model_base_model, model_creator, name) ==
    MODEL_PATH \o <<DictGet(MODEL_TYPE_TO_DIRECTORY_MAP, model_type),
                    model_base_model, model_creator, name>>

\* Relocator: the by-id answer, the target path, the staged writes.
RelocatorIdResponse(a) ==
    /\ pc = "relocator_request_id"
    /\ a \in IdAnswers \cup {TransientError}
    /\ ~ShouldRetry(a.status)
    /\ SameAnswer(registry.byId[model_version.modelId], a)
    /\ registry' = [registry EXCEPT !.byId[model_version.modelId] = Remember(@, a)]
    /\ response' = a
    /\ retries' = 0
    /\ LET model == a.json
           model_type == model_version.type
           model_base_model == model_version.baseModel
           model_creator == CreatorOf(model)
           target == TargetPath(model_type, model_base_model, model_creator,
                                Name(model_path))
       IN  IF DictGet(MODEL_TYPE_TO_DIRECTORY_MAP, model_type) = None
           THEN \* Path(...) raises TypeError on None
                /\ Land(Raise(Ctx(db, durable)), "relocator_check", outcome)
                /\ UNCHANGED new_model_path
           ELSE /\ new_model_path' = target
                /\ Land(RelocatorStage(Ctx(db, durable), target, model_hash,
                                       model_type, model_base_model, model_creator),
                        "relocator_check", outcome)
    /\ UNCHANGED <<lost, fs, runs, todo, model_path, model_hash, model_version,
                   begin, prev, moves>>

\* The conflict check as it would be without the exists() test.
RelocatorConflictCheck_NoCheck ==
    /\ pc = "relocator_check"
    /\ pc' = "relocator_rename"
    /\ UNCHANGED <<lost, fs, durable, db, runs, todo, model_path, model_hash, model_version,
                   new_model_path, response, retries, registry, begin, outcome, prev, moves>>

\* The conflict check as it would be were the transaction committed before the move.
RelocatorConflictCheck_CommitsFirst ==
    /\ pc = "relocator_check"
    /\ IF new_model_path \in DOMAIN fs
       THEN Land(Rollback(Ctx(db, durable)), "relocator", "rolledback")
       ELSE Land(Commit(Ctx(db, durable)), "relocator_rename", outcome)
    /\ UNCHANGED <<lost, fs, runs, todo, model_path, model_hash, model_version,
                   new_model_path, response, retries, registry, begin, prev, moves>>

\* Relocator: if new_model_path.exists(): connection.rollback(); continue --
\* else the target directory is made and the file is about to be moved.
RelocatorConflictCheck ==
    /\ pc = "relocator_check"
    /\ IF new_model_path \in DOMAIN fs
       THEN Land(Rollback(Ctx(db, durable)), "relocator", "rolledback")
       ELSE /\ pc' = "relocator_rename"
            /\ UNCHANGED <<durable, db, outcome>>
    /\ UNCHANGED <<lost, fs, runs, todo, model_path, model_hash, model_version,
                   new_model_path, response, retries, registry, begin, prev, moves>>

\* Relocator: the file is moved to its target.
RenameFile ==
    /\ pc = "relocator_rename"
    /\ fs' = Rename(fs, model_path, new_model_path)
    /\ moves' = moves + 1
    /\ pc' = "relocator_commit"
    /\ UNCHANGED <<lost, durable, db, runs, todo, model_path, model_hash, model_version,
                   new_model_path, response, retries, registry, begin, outcome, prev>>

\* Relocator: mkdir or rename raises OSError, which nothing catches.
RenameFails ==
    /\ pc = "relocator_rename"
    /\ Land(Raise(Ctx(db, durable)), "relocator_commit", outcome)
    /\ UNCHANGED <<lost, fs, runs, todo, model_path, model_hash, model_version,
                   new_model_path, response, retries, registry, begin, prev, moves>>

\* Relocator: the transaction of the moved file is committed.
CommitMove ==
    /\ pc = "relocator_commit"
    /\ Land(Commit(Ctx(db, durable)), "relocator", "relocated")
    /\ UNCHANGED <<lost, fs, runs, todo, model_path, model_hash, model_version,
                   new_model_path, response, retries, registry, begin, prev, moves>>

\* The Relocator loop ends, and the script with it.
RelocatorDone ==
    /\ pc = "relocator"
    /\ todo = {}
    /\ pc' = "done"
    /\ db' = durable
    /\ UNCHANGED <<lost, fs, durable, runs, todo, model_path, model_hash, model_version,
                   new_model_path, response, retries, registry, begin, outcome, prev, moves>>

\* The process is killed from outside, at any statement: the connection is gone
\* and its staged writes with it. What the run had staged for a file it had moved
\* already is remembered.
Kill ==
    /\ ~Stopped
    /\ pc' = "killed"
    /\ outcome' = "killed"
    /\ db' = durable
    /\ lost' = IF pc = "relocator_commit" /\ model_version.kind = "version"
               THEN lost \cup {[path |-> new_model_path, hash |-> model_hash,
                                type |-> model_version.type,
                                base_model |-> model_version.baseModel,
                                creator |-> CreatorOf(response.json)]}
               ELSE lost
    /\ todo' = {}
    /\ model_path' = <<>>
    /\ model_hash' = ""
    /\ model_version' = ErrorJson
    /\ new_model_path' = <<>>
    /\ response' = NoResponse
    /\ retries' = 0
    /\ begin' = durable
    /\ UNCHANGED <<fs, durable, runs, registry, prev, moves>>

Next ==
    \/ StartRun
    \/ \E p \in todo : ClassifierSkip(p)
    \/ \E p \in todo : ClassifierUncertain(p)
    \/ \E p \in todo : ClassifierRequest(p)
    \/ Retry
    \/ \E a \in HashAnswers \cup {TransientError} : ClassifierResponse(a)
    \/ ClassifierDone
    \/ \E p \in todo : RelocatorSkip(p)
    \/ \E p \in todo : RelocatorRequest(p)
    \/ \E a \in HashAnswers \cup {TransientError} : RelocatorHashResponse(a)
    \/ \E a \in IdAnswers \cup {TransientError} : RelocatorIdResponse(a)
    \/ RelocatorConflictCheck
    \/ RenameFile
    \/ RenameFails
    \/ CommitMove
    \/ RelocatorDone

Spec == Init /\ [][Next]_vars

\* The script in a world where a run may be killed.
NextKill == Next \/ Kill

SpecKill == Init /\ [][NextKill]_vars

TypeOK ==
    /\ pc \in {"idle", "classifier", "classifier_request", "relocator",
                "relocator_request_hash", "relocator_request_id", "relocator_check",
                "relocator_rename",
                "relocator_commit", "done", "exited", "crashed", "killed"}
    /\ runs \in 0..MaxRuns
    /\ retries \in 0..MaxRetries
    /\ \A p \in DOMAIN fs : fs[p] \in Hashes

-----------------------------------------------------------------------------
\* Shorthands of the properties.

\* The step in which the Relocator computes the target path of the current file.
ComputesTarget ==
    /\ pc \in {"relocator_request_hash", "relocator_request_id"}
    /\ new_model_path' # <<>>

\* The ModelFile rows of catalog d that catalog e lacks.
NewModels(d, e) == d.models \ e.models

\* The CatalogEntry rows of catalog d that catalog e lacks.
NewEntries(d, e) == d.civitai_models \ e.civitai_models

\* Catalog d has a ModelFile row with this path / with this hash.
HasPath(d, path) == \E m \in d.models : m.path = path
HasHash(d, hash) == \E m \in d.models : m.hash = hash

\* The name behind a reference id.
NameOf(d, table, id) ==
    IF \E r \in d[table] : r.id = id THEN (CHOOSE r \in d[table] : r.id = id).name ELSE None

-----------------------------------------------------------------------------
\* C1. Idempotence of a full run: when a run completes right after a completed
\* run, the durable catalog is the one the earlier run left and no file was moved.
C1_Idempotence ==
    (pc = "done" /\ prev.completed) => (durable = prev.catalog /\ moves = 0)

\* C2. A target-path collision is recoverable: when the target path computed for
\* a staging file exists on disk, whatever the catalog holds, the run does not stop:
\* the script reaches its conflict check, which rolls the staged writes back, skips
\* the file and goes on with the remaining files.
C2_CollisionRecoverable ==
    /\ [][(ComputesTarget /\ new_model_path' \in DOMAIN fs)
            => (pc' = "relocator_check" /\ durable' = durable /\ fs' = fs)]_vars
    /\ [][(pc = "relocator_check" /\ new_model_path \in DOMAIN fs)
            => (pc' = "relocator" /\ outcome' = "rolledback" /\ db' = durable
                /\ durable' = durable /\ fs' = fs)]_vars

\* C3. Conflict safety: when the computed target path exists on disk, the file is
\* never moved: its processing ends by the skip of the conflict check or by the end
\* of the run, and then the file is still at its path, the file at the target is
\* unchanged, and the catalog, durable and as the connection sees it, is the durable
\* catalog from before the file.
C3_ConflictSafety ==
    /\ [][(ComputesTarget /\ new_model_path' \in DOMAIN fs)
            => (/\ pc' \in {"relocator_check", "exited", "crashed"}
                /\ fs' = fs
                /\ durable' = begin
                /\ (pc' # "relocator_check" => db' = begin))]_vars
    /\ [][(pc = "relocator_check" /\ new_model_path \in DOMAIN fs)
            => (/\ pc' = "relocator"
                /\ fs' = fs
                /\ durable' = begin
                /\ db' = begin)]_vars

\* C3 witness: a file found by the registry, whose writes were staged, was rolled
\* back because its target path was taken.
C3_Witness ==
    /\ outcome = "rolledback"
    /\ response.json.kind = "model"
    /\ new_model_path \in DOMAIN fs
    /\ model_path \in DOMAIN fs
    /\ db = begin

\* C4. A staging file the registry does not know, with a free place in the
\* uncertain bucket: once its processing is over, the file lies in the bucket and the
\* durable catalog has a ModelFile row with that path, the hash and no CatalogEntry.
C4_UnknownRelocated ==
    (/\ pc = "relocator"
     /\ outcome = "relocated"
     /\ response.status = 404
     /\ model_version.kind # "version")
    => (/\ new_model_path = MODEL_NOT_FOUND_PATH \o <<Name(model_path)>>
        /\ new_model_path \in DOMAIN fs
        /\ fs[new_model_path] = model_hash
        /\ model_path \notin DOMAIN fs
        /\ \E m \in durable.models :
              m.path = new_model_path /\ m.hash = model_hash /\ m.civitai_model_id = NULL)

\* C4 failing case: a registry-unknown file was moved into the free bucket place.
\* (The move itself happens; the ModelFile row is what the run does not write.)
C4_Moved ==
    /\ pc = "relocator"
    /\ outcome = "relocated"
    /\ response.status = 404
    /\ model_version.kind # "version"
    /\ new_model_path \in DOMAIN fs
    /\ durable = begin

\* The step that takes the next file of a loop.
Takes ==
    /\ pc \in {"classifier", "relocator"}
    /\ model_path' \in todo
    /\ todo' = todo \ {model_path'}

\* The canonical type name the claim gives for a type directory.
CanonicalType(dir) ==
    CASE dir = "loras" -> "LORA"
      [] dir = "checkpoints" -> "Checkpoint"
      [] dir = "embeddings" -> "TextualInversion"
      [] dir = "vae" -> "VAE"
      [] OTHER -> None

\* C5. Offline classification: when the registry answers 404 for an uncataloged
\* file at models/<typeDir>/<baseModel>/<creator>/<file>, the Classifier goes on,
\* and commits a ModelFile row for the file that is linked to a CatalogEntry whose
\* type is the canonical name of <typeDir>.
C5_OfflineClassification ==
    [][(/\ pc = "classifier_request"
        /\ Len(model_path) = 5
        /\ response'.status = 404)
        => (/\ pc' = "classifier"
            /\ outcome' = "classified"
            /\ \E m \in durable'.models :
                  /\ m.path = model_path
                  /\ m.hash = model_hash
                  /\ \E e \in durable'.civitai_models :
                        /\ e.id = m.civitai_model_id
                        /\ NameOf(durable', "types", e.type_id)
                              = CanonicalType(model_path[2]))]_vars

\* The outcome the claim C6 expects for the file just relocated.
C6_Expected ==
    LET T == model_version.type
        B == model_version.baseModel
        C == IF response.json.creator = None THEN "null" ELSE response.json.creator
        target == <<"models", MODEL_TYPE_TO_DIRECTORY_MAP[T], B, C, Name(model_path)>>
    IN  /\ new_model_path = target
        /\ target \in DOMAIN fs
        /\ fs[target] = model_hash
        /\ model_path \notin DOMAIN fs
        /\ \E e \in durable.civitai_models, m \in durable.models :
              /\ NewEntries(durable, begin) = {e}
              /\ NewModels(durable, begin) = {m}
              /\ NameOf(durable, "types", e.type_id) = T
              /\ NameOf(durable, "base_models", e.base_model_id) = B
              /\ NameOf(durable, "creators", e.creator_id) = C
              /\ m.path = target
              /\ m.hash = model_hash
              /\ m.civitai_model_id = e.id

\* A file found by the registry, with a model record, was relocated and committed.
C6_Relocated ==
    /\ pc = "relocator"
    /\ outcome = "relocated"
    /\ response.status = 200
    /\ response.json.kind = "model"

\* C6. Relocating a registry-known file: when the registry reports type T of the
\* type-to-directory map, base model B and creator C (the sentinel "null" without a
\* creator) and no file lies at models/<dir(T)>/<B>/<C>/<name>, the Relocator stages
\* its writes, passes the conflict check and moves the file there; and once the move
\* is committed, the file lies at
\* exactly that path and the durable catalog has exactly one new CatalogEntry, for
\* T, B and C, linked from exactly one new ModelFile row with that path and the hash.
C6_KnownRelocated ==
    /\ [](C6_Relocated => C6_Expected)
    /\ [][(/\ pc = "relocator_request_id"
            /\ response'.status = 200
            /\ response'.json.kind = "model"
            /\ model_version.type \in DOMAIN MODEL_TYPE_TO_DIRECTORY_MAP
            /\ <<"models", MODEL_TYPE_TO_DIRECTORY_MAP[model_version.type],
                  model_version.baseModel,
                  IF response'.json.creator = None THEN "null" ELSE response'.json.creator,
                  Name(model_path)>> \notin DOMAIN fs)
            => (pc' = "relocator_check" /\ fs' = fs /\ durable' = durable)]_vars
    /\ [][(pc = "relocator_check" /\ new_model_path \notin DOMAIN fs)
            => (pc' = "relocator_rename" /\ fs' = fs /\ durable' = durable)]_vars
    /\ [][(pc = "relocator_rename" /\ pc' = "relocator_commit")
            => (/\ new_model_path \notin DOMAIN fs
                /\ DOMAIN fs' = (DOMAIN fs \ {model_path}) \cup {new_model_path}
                /\ fs'[new_model_path] = fs[model_path]
                /\ \A p \in DOMAIN fs \ {model_path} : fs'[p] = fs[p])]_vars

\* C6 witness: a file without a creator in its model record was relocated under the
\* sentinel creator while another file was already cataloged.
C6_Witness ==
    /\ C6_Relocated
    /\ response.json.creator = None
    /\ new_model_path[4] = "null"
    /\ begin.models # {}

\* C7 as stated: a file whose content is cataloged already under another path, and
\* whose own path is not in the catalog, is recorded as a ModelFile row with its
\* path, the hash and no CatalogEntry.
C7_SecondRecorded ==
    [][(/\ Takes
        /\ HasHash(db, fs[model_path'])
        /\ ~HasPath(db, model_path'))
        => (\E m \in db'.models :
              /\ m.path = model_path'
              /\ m.hash = fs[model_path']
              /\ m.civitai_model_id = NULL)]_vars

\* C7, amended. Duplicate detection: a file whose content hash is in the catalog
\* already is skipped entirely, whether or not its own path is in the catalog: no
\* row is written for it, the registry is not asked, and the file is left in place;
\* so of two files with the same content at most one has a durable ModelFile row.
C7_DuplicateSkipped ==
    /\ [][(Takes /\ HasHash(db, fs[model_path']))
            => (/\ outcome' = "skipped"
                /\ pc' = pc
                /\ db' = db
                /\ durable' = durable
                /\ fs' = fs
                /\ registry' = registry)]_vars
    /\ [](\A p, q \in DOMAIN fs :
            (p # q /\ fs[p] = fs[q])
            => ~(HasPath(durable, p) /\ HasPath(durable, q)))

\* C7 witness: a file was skipped whose path is not cataloged and whose content is
\* cataloged under the path of another file on disk.
C7_Witness ==
    /\ outcome = "skipped"
    /\ model_path \in DOMAIN fs
    /\ ~HasPath(db, model_path)
    /\ \E m \in durable.models :
          /\ m.hash = fs[model_path]
          /\ m.path # model_path
          /\ m.path \in DOMAIN fs
          /\ m.civitai_model_id # NULL

\* No two ModelFile rows of catalog d share a hash, a path or a CatalogEntry, and
\* no ModelFile row is linked to two CatalogEntry rows.
Unique(d) ==
    /\ \A m1, m2 \in d.models :
          m1 # m2 =>
            /\ m1.hash # m2.hash
            /\ m1.path # m2.path
            /\ (m1.civitai_model_id # NULL => m1.civitai_model_id # m2.civitai_model_id)
    /\ \A m \in d.models :
          Cardinality({e \in d.civitai_models : e.id = m.civitai_model_id}) <= 1

\* C8. Uniqueness: in every catalog state, durable or with the writes staged so
\* far, no two ModelFile rows share a content hash or a path, and no ModelFile row
\* is linked to two CatalogEntry rows.
C8_Uniqueness == Unique(durable) /\ Unique(db)

\* C8 witness: two byte-identical files on disk, and a second run over a catalog
\* of two ModelFile rows.
C8_Witness ==
    /\ runs = 2
    /\ Cardinality(durable.models) >= 2
    /\ \E p, q \in DOMAIN fs : p # q /\ fs[p] = fs[q]

\* C9. Per-file atomicity: when the processing of a file ends without commit (by
\* rollback, by exit() or by an uncaught error), the catalog, durable and as the
\* connection sees it, is the durable catalog from before that file; and an insert
\* that must be unique and is not (the target path is cataloged already) ends the
\* run in that very step, with no file moved.
C9_Atomicity ==
    /\ [](outcome \in {"rolledback", "exited", "crashed"}
            => (durable = begin /\ db = begin))
    /\ [][(/\ pc = "relocator_request_id"
            /\ new_model_path' # <<>>
            /\ HasPath(db, new_model_path'))
            => (pc' = "exited" /\ fs' = fs /\ durable' = begin)]_vars

\* C9 witness: exit() on the uniqueness violation, after the references and the
\* CatalogEntry had been staged.
C9_Witness ==
    /\ pc = "exited"
    /\ HasPath(durable, new_model_path)
    /\ durable = begin

\* C10. No progress on a transient failure: a 500 response is never handed to the
\* caller, and while the registry answers 500 the script stays at the same request
\* of the same file, with no catalog write, commit, rollback or move.
C10_NoProgressOn500 ==
    /\ [](response.status = 500 => pc \in RequestPcs)
    /\ [][(pc \in RequestPcs /\ response'.status = 500)
            => (/\ pc' = pc
                /\ model_path' = model_path
                /\ model_hash' = model_hash
                /\ model_version' = model_version
                /\ db' = db
                /\ durable' = durable
                /\ fs' = fs
                /\ todo' = todo)]_vars

\* C10 witness: the Relocator's by-id request was answered 500 and repeated.
C10_Witness ==
    /\ pc = "relocator_request_id"
    /\ response.status = 500
    /\ retries >= 1

\* An answer that is neither the record the request asks for, nor the by-hash
\* not-found, nor a transient error.
Unexpected(at, a) ==
    /\ a.status # 500
    /\ IF at = "relocator_request_id"
       THEN a.json.kind # "model"
       ELSE a.status # 404 /\ a.json.kind # "version"

\* C11. Unexpected registry responses are fatal: when the answer to a lookup by
\* hash or by id is neither a record, nor the by-hash not-found, nor a transient
\* error, the run ends on that file, with no catalog write for the file committed
\* and the file not moved; the Relocator never goes on after a by-id answer that is
\* no model record.
C11_UnexpectedFatal ==
    [][(pc \in RequestPcs /\ Unexpected(pc, response'))
        => (/\ pc' \in {"crashed", "exited"}
            /\ durable' = begin
            /\ fs' = fs)]_vars

\* C11 failing case: a file whose by-id lookup was answered by an error body was
\* moved under the sentinel creator and committed.
C11_Continued ==
    /\ pc = "relocator"
    /\ outcome = "relocated"
    /\ model_version.kind = "version"
    /\ response.json.kind = "error"
    /\ new_model_path \in DOMAIN fs
    /\ HasPath(durable, new_model_path)

\* The reference categories.
RefTables == {"types", "base_models", "creators"}

\* The names to look up in a category of catalog d: every name it holds, and two
\* it may not hold yet.
RefNames(d, table) == {r.name : r \in d[table]} \cup {"LORA", "SDXL"}

\* The reference rows of catalog d in `table` with this name.
Named(d, table, name) == {r \in d[table] : r.name = name}

\* Get-or-create of `name` in `table`, from this catalog state: twice on the same
\* connection, then the commit, then once more on the connection of a later run.
\* The three calls return one id, and exactly one row has the name.
Deduplicated(d, dur, table, name) ==
    LET c1 == GetOrCreateRef(Ctx(d, dur), table, name)
        c2 == GetOrCreateRef(c1, table, name)
        c3 == GetOrCreateRef(Startup(Commit(c2).durable), table, name)
    IN  /\ c1.halt = "no" /\ c2.halt = "no" /\ c3.halt = "no"
        /\ c1.fetched # NULL
        /\ c2.fetched = c1.fetched
        /\ c3.fetched = c1.fetched
        /\ Cardinality(Named(c1.db, table, name)) = 1
        /\ Cardinality(Named(c2.db, table, name)) = 1
        /\ Cardinality(Named(c3.db, table, name)) = 1
        /\ c2.db[table] \subseteq c3.db[table]

EntryNames(d, m, type, base_model, creator) ==
    \E e \in d.civitai_models :
        /\ e.id = m.civitai_model_id
        /\ NameOf(d, "types", e.type_id) = type
        /\ NameOf(d, "base_models", e.base_model_id) = base_model
        /\ NameOf(d, "creators", e.creator_id) = creator

\* C13. Safe resumption: a run killed between a file's move and its commit would,
\* unkilled, have committed the ModelFile row and the CatalogEntry it had staged
\* (path, hash, type, base model, creator). Rows are never changed once written, so
\* the runs after the kill end with the catalog of the unkilled run only if, when a
\* later run completes, the row of that path holds that hash and that entry.
C13_SafeResumption ==
    pc = "done" =>
        \A l \in lost :
            /\ l.path \in DOMAIN fs
            /\ fs[l.path] = l.hash
            /\ \E m \in durable.models :
                  /\ m.path = l.path
                  /\ m.hash = l.hash
                  /\ EntryNames(durable, m, l.type, l.base_model, l.creator)

\* C13 failing case: the run after the kill has completed, and the file the killed
\* run had moved is cataloged at its new path with another base model and creator.
C13_Diverged ==
    /\ pc = "done"
    /\ \E l \in lost : \E m \in durable.models :
          /\ m.path = l.path
          /\ m.hash = l.hash
          /\ ~EntryNames(durable, m, l.type, l.base_model, l.creator)
          /\ EntryNames(durable, m, l.type, l.path[2], l.path[3])

\* C14. Directory-derived identity in the Classifier: for an uncataloged file at
\* models/<typeDir>/<B>/<C>/<file> that the registry finds with type T, the
\* Classifier commits a ModelFile row with the file's path and hash, linked to a
\* CatalogEntry of type T, base model B and creator C.
C14_DirectoryIdentity ==
    [][(/\ pc = "classifier_request"
        /\ Len(model_path) = 5
        /\ response'.status = 200
        /\ response'.json.kind = "version")
        => (/\ pc' = "classifier"
            /\ fs' = fs
            /\ \E m \in durable'.models :
                  /\ m.path = model_path
                  /\ m.hash = model_hash
                  /\ EntryNames(durable', m, response'.json.type,
                                model_path[3], model_path[4]))]_vars

\* C14 failing case: a file found by the registry was classified, and its
\* CatalogEntry names the type directory as base model and the base-model
\* directory as creator.
C14_Shifted ==
    /\ pc = "classifier"
    /\ outcome = "classified"
    /\ Len(model_path) = 5
    /\ model_path[2] # model_path[3]
    /\ \E m \in durable.models :
          /\ m.path = model_path
          /\ m.hash = model_hash
          /\ EntryNames(durable, m, response.json.type, model_path[2], model_path[3])

\* C15 as stated: the transaction of a relocated file is committed before the
\* file is moved, so the ModelFile row of the target path is durable when the move
\* is made or fails.
C15_CommitThenMove ==
    [][(fs' # fs /\ model_version.kind = "version")
        => (HasPath(durable, new_model_path) /\ durable' = durable)]_vars

\* C15, amended. Move/commit ordering in the Relocator: the file is moved first
\* and the transaction is committed afterwards. When the file is moved nothing of
\* its transaction is durable; the commit comes only once the file lies at the
\* target; and a run that stops at the move (the move fails, or the run is killed)
\* leaves the file at its staging path and no durable ModelFile row for the target.
C15_MoveThenCommit ==
    /\ [][fs' # fs
            => (/\ pc = "relocator_rename"
                /\ pc' = "relocator_commit"
                /\ durable' = durable
                /\ durable = begin
                /\ db' = db
                /\ ~HasPath(durable, new_model_path))]_vars
    /\ [][(pc \in {"relocator_check", "relocator_rename", "relocator_commit"}
            /\ durable' # durable)
            => (/\ pc = "relocator_commit"
                /\ fs' = fs
                /\ model_path \notin DOMAIN fs
                /\ new_model_path \in DOMAIN fs
                /\ fs[new_model_path] = model_hash
                /\ durable' = db)]_vars
    /\ [][(pc = "relocator_rename" /\ pc' \in {"crashed", "killed"})
            => (/\ fs' = fs
                /\ model_path \in DOMAIN fs
                /\ new_model_path \notin DOMAIN fs
                /\ durable' = begin
                /\ ~HasPath(durable', new_model_path))]_vars

\* C15 witness: a registry-known file lies at its target already while its
\* ModelFile row is staged and not yet durable.
C15_Witness ==
    /\ pc = "relocator_commit"
    /\ new_model_path \in DOMAIN fs
    /\ model_path \notin DOMAIN fs
    /\ HasPath(db, new_model_path)
    /\ ~HasPath(durable, new_model_path)

\* Every ModelFile row of catalog d names a file on disk with the row's hash.
Consistent(d) == \A m \in d.models : m.path \in DOMAIN fs /\ fs[m.path] = m.hash

\* C16. Catalog/filesystem consistency: at every point where a run can stop,
\* after any step, a failed move or a kill, every durable ModelFile row names a
\* file that is on disk and whose content hash is the row's hash.
C16_Consistency == Consistent(durable)

\* C16 witness: a run was killed or ended by an error after another file had
\* been relocated and cataloged, with a third file still in the staging root.
C16_Witness ==
    /\ pc \in {"killed", "crashed"}
    /\ \E m \in durable.models : Len(m.path) = 5 /\ m.civitai_model_id # NULL
    /\ \E p \in DOMAIN fs : Len(p) = 2 /\ ~HasHash(durable, fs[p])
    /\ lost # {}

\* The uncertain bucket, models/loras/null.
Bucket == <<"models", "loras", "null">>

\* The Classifier takes a file that lies directly in the uncertain bucket.
TakesBucketFile ==
    /\ pc = "classifier"
    /\ Takes
    /\ Parent(model_path') = Bucket

\* C17. Uncertain-bucket special case: for a file directly in models/loras/null
\* whose path and hash are not cataloged, the Classifier commits one ModelFile row
\* with the file's path and hash and no CatalogEntry, writes no CatalogEntry and no
\* reference row, asks the registry nothing and leaves the file in place; whenever
\* the file is met again with its path cataloged it is skipped with nothing changed;
\* and a row of the bucket stays as it is, without CatalogEntry, ever after.
C17_UncertainBucket ==
    /\ [][(/\ TakesBucketFile
           /\ ~HasPath(db, model_path')
           /\ ~HasHash(db, fs[model_path']))
            => (/\ pc' = "classifier"
                /\ outcome' = "recorded"
                /\ \E m \in durable'.models :
                      /\ NewModels(durable', durable) = {m}
                      /\ m.path = model_path'
                      /\ m.hash = fs[model_path']
                      /\ m.civitai_model_id = NULL
                /\ \A t \in Tables \ {"models"} : durable'[t] = durable[t]
                /\ db' = durable'
                /\ registry' = registry
                /\ response' = NoResponse
                /\ fs' = fs)]_vars
    /\ [][(TakesBucketFile /\ HasPath(db, model_path'))
            => (/\ pc' = "classifier"
                /\ outcome' = "skipped"
                /\ durable' = durable
                /\ db' = db
                /\ registry' = registry
                /\ fs' = fs)]_vars
    /\ [][\A m \in durable.models :
              Parent(m.path) = Bucket
              => (m.civitai_model_id = NULL /\ m \in durable'.models
                  /\ m.path \in DOMAIN fs')]_vars

\* C17 witness: in a second run the Classifier skipped a bucket file that the
\* first run's Classifier had recorded without CatalogEntry.
C17_Witness ==
    /\ runs = 2
    /\ pc = "classifier"
    /\ outcome = "skipped"
    /\ Parent(model_path) = Bucket
    /\ \E m \in prev.catalog.models :
          m.path = model_path /\ m.hash = fs[model_path] /\ m.civitai_model_id = NULL
    /\ \E m \in durable.models : m.path = model_path /\ m.civitai_model_id = NULL

\* The ModelFile rows of catalog d linked to CatalogEntry e.
LinkedFrom(d, e) == {m \in d.models : m.civitai_model_id = e.id}

\* C18. One-to-one linking: in every durable catalog state, whatever runs came
\* before (completed, ended by an error, killed, with files rolled back), every
\* CatalogEntry row is linked from exactly one ModelFile row, and every link of a
\* ModelFile row leads to exactly one CatalogEntry row.
C18_OneToOne ==
    /\ \A e \in durable.civitai_models : Cardinality(LinkedFrom(durable, e)) = 1
    /\ \A m \in durable.models :
          m.civitai_model_id # NULL
          => Cardinality({e \in durable.civitai_models : e.id = m.civitai_model_id}) = 1

\* C18 witness: a second run was killed over a catalog of two CatalogEntry rows,
\* after an earlier run had been killed between a file's move and its commit.
C18_Witness ==
    /\ pc = "killed"
    /\ runs = 2
    /\ lost # {}
    /\ Cardinality(durable.civitai_models) >= 2

\* C19. Run termination under eventual availability: when the registry's answer
\* to a request is found or not-found (no unexpected answer) and no filesystem
\* operation fails, the run does not fail: it never ends on that file by exit() or
\* by an uncaught error, and the file goes on to one of its terminal outcomes.
C19_NoFailure ==
    [][(/\ pc \in RequestPcs
        /\ response'.status # 500
        /\ ~Unexpected(pc, response'))
        => pc' \notin {"exited", "crashed"}]_vars

\* C19 failing case: the run ended by an uncaught error on a Classifier file
\* right after the registry's not-found answer.
C19_Failed ==
    /\ pc = "crashed"
    /\ response.status = 404
    /\ Len(model_path) = 5
    /\ ~HasPath(durable, model_path)

\* The target path of the file the Relocator is at, as its answers give it.
IsTargetOf(target, path) ==
    /\ Name(target) = Name(path)
    /\ \/ /\ model_version.kind # "version"
          /\ Parent(target) = Bucket
       \/ /\ model_version.kind = "version"
          /\ model_version.type \in DOMAIN MODEL_TYPE_TO_DIRECTORY_MAP
          /\ Parent(target) = <<"models", MODEL_TYPE_TO_DIRECTORY_MAP[model_version.type],
                                model_version.baseModel,
                                IF response.json.creator = None
                                THEN "null" ELSE response.json.creator>>

\* C20. No file is lost or overwritten: the only step that changes the files on
\* disk is the Relocator's move of a file that lies directly in models/ to the
\* target path computed for it, where no file lies; the file keeps its content and
\* every other file stays where and what it is. The Classifier pass changes nothing
\* on disk, and neither does the end of a run, however it ends.
C20_NoFileLost ==
    /\ [][fs' # fs
            => (/\ pc = "relocator_rename"
                /\ model_path \in DOMAIN fs
                /\ Parent(model_path) = <<"models">>
                /\ IsTargetOf(new_model_path, model_path)
                /\ new_model_path \notin DOMAIN fs
                /\ DOMAIN fs' = (DOMAIN fs \ {model_path}) \cup {new_model_path}
                /\ fs'[new_model_path] = fs[model_path]
                /\ \A p \in DOMAIN fs \ {model_path} : fs'[p] = fs[p])]_vars
    /\ [][(pc \in {"classifier", "classifier_request"} \/ Stopped \/ pc' \in
              {"done", "exited", "crashed", "killed"})
            => fs' = fs]_vars

\* C20 witness: a run was killed after it had moved a file, with three files on
\* disk, two of them of the same name.
C20_Witness ==
    /\ pc = "killed"
    /\ moves >= 1
    /\ Cardinality(DOMAIN fs) = 3
    /\ \E p, q \in DOMAIN fs : p # q /\ Name(p) = Name(q)

====
